---- MODULE Spec2Model ----
(***************************************************************************)
(* Model of unity_ads_humanized_bot_Version3.py: the per-proxy worker      *)
(* loops (watch_ads), the hourly reset thread (reset_views_hourly), the    *)
(* status query (get_proxy_stats) and the /start handler, all sharing the  *)
(* two defaultdict counters under proxy_lock.                              *)
(*                                                                         *)
(* The caps and the search timeout are scaled down from the source values  *)
(* (100, 5000, 50) so that the exhausted cases are reached; two of the     *)
(* five proxies are modelled.                                              *)
(***************************************************************************)
EXTENDS Integers, FiniteSets, Sequences, TLC

\* ---------------------------------------------------------------- bounds
\* MAX_VIEWS_PER_HOUR (source: 100), scaled
MAX_VIEWS_PER_HOUR == 2
\* MAX_TOTAL_VIEWS_PER_PROXY (source: 5000), scaled
MAX_TOTAL_VIEWS_PER_PROXY == 3
\* the dismissal search timeout, time.time() + 50 in the source, scaled
SEARCH_TIMEOUT == 2
\* number of /start requests the model issues
MaxStarts == 2

\* ------------------------------------------------------------- constants
PROXIES == {"proxy_1", "proxy_2"}

\* identities of the two non-worker tasks that take proxy_lock
ResetTask == "reset_thread"
StatusTask == "dispatcher"
Free == "free"

\* the integer durations random.uniform(1, 2) of the poll sleep can take
PollSleeps == {1, 2}

VARIABLES
    proxy_view_count,   \* defaultdict(int): a function on the keys present
    proxy_total_count,  \* defaultdict(int): a function on the keys present
    proxy_lock,         \* Free or the task holding the lock
    active_threads,     \* keys of the active_threads dict
    pc,                 \* position of each proxy's watch_ads thread
    count,              \* watch_ads local `count`, 0 once no longer read
    tap_done,           \* whether this cycle's human_tap on the ad button
                        \* performed a tap
    elapsed,            \* time.time() - (timeout - 50) in the search loop,
                        \* 0 outside it
    reset_pc,           \* position of the reset_views_hourly thread
    status_pc,          \* position of the dispatcher in a /status request
    spawned,            \* number of Thread objects started per proxy
    resets_spawned,     \* number of reset threads started
    starts,             \* number of /start requests handled
    category,           \* history: the category of the ad button the
                        \* proxy last found
    last_category,      \* history: the category of the proxy's last
                        \* committed cycle
    close_found,        \* watch_ads local `close_found`, FALSE once no
                        \* longer read
    cross_tapped,       \* whether human_tap on the cross candidate
                        \* performed a tap
    snapshot,           \* the elements on screen when
                        \* find_all_possible_cross_buttons is called
    failing,            \* the queries of that call that raise
    found,              \* what that call returned
    match_done          \* whether that call has returned

vars == <<proxy_view_count, proxy_total_count, proxy_lock, active_threads,
          pc, count, tap_done, elapsed, reset_pc, status_pc, spawned,
          resets_spawned, starts, category, last_category, close_found,
          cross_tapped, snapshot, failing, found, match_done>>

\* the state of a call of find_all_possible_cross_buttons on its own
MatcherVars == <<snapshot, failing, found, match_done>>

\* the outcome of the dismissal of the workers' current cycle
CycleVars == <<close_found, cross_tapped>>

\* the history variables, recorded in SpecRecorded only
HistoryVars == <<category, last_category>>

\* ------------------------------------------------------ defaultdict(int)
\* d[k] as an rvalue: the stored value, or the default 0
Val(d, k) == IF k \in DOMAIN d THEN d[k] ELSE 0

\* the dict after d[k] was read: a missing key is inserted with 0
Touch(d, k) == IF k \in DOMAIN d THEN d ELSE d @@ (k :> 0)

\* the dict after d[k] += 1
Incr(d, k) == [Touch(d, k) EXCEPT ![k] = @ + 1]

\* the dict after every key in ks was read
RECURSIVE TouchAll(_, _)
TouchAll(d, ks) ==
    IF ks = {} THEN d
    ELSE LET k == CHOOSE x \in ks : TRUE
         IN  TouchAll(Touch(d, k), ks \ {k})

EmptyDict == [k \in {} |-> 0]

\* ------------------------------------------------------------------ Init
\* the module-level state before any command was handled
ProgramInit ==
    /\ proxy_view_count = EmptyDict
    /\ proxy_total_count = EmptyDict
    /\ proxy_lock = Free
    /\ active_threads = {}
    /\ pc = [p \in PROXIES |-> "none"]
    /\ count = [p \in PROXIES |-> 0]
    /\ tap_done = [p \in PROXIES |-> FALSE]
    /\ elapsed = [p \in PROXIES |-> 0]
    /\ reset_pc = "none"
    /\ status_pc = "idle"
    /\ spawned = [p \in PROXIES |-> 0]
    /\ resets_spawned = 0
    /\ starts = 0
    /\ category = [p \in PROXIES |-> "none"]
    /\ last_category = [p \in PROXIES |-> "none"]
    /\ close_found = [p \in PROXIES |-> FALSE]
    /\ cross_tapped = [p \in PROXIES |-> FALSE]

Init ==
    /\ ProgramInit
    /\ snapshot = {}
    /\ failing = {}
    /\ found = <<>>
    /\ match_done = FALSE

\* ---------------------------------------------------------------- /start
\* StartsWorkers without the guard
StartsWorkersMut(threads) == TRUE

\* `if not active_threads`
StartsWorkers(threads) == threads = {}

\* `if reset_thread is None or not reset_thread.is_alive()`; the reset
\* thread's loop never returns, so a started thread is alive
StartsReset(rpc) == rpc = "none"

\* start(): handled by the dispatcher thread, one update at a time
Start ==
    /\ status_pc = "idle"
    /\ starts < MaxStarts
    /\ starts' = starts + 1
    /\ IF StartsWorkers(active_threads)
       THEN /\ active_threads' = PROXIES
            /\ spawned' = [p \in PROXIES |-> spawned[p] + 1]
            /\ pc' = [p \in PROXIES |-> "create_driver"]
       ELSE UNCHANGED <<active_threads, spawned, pc>>
    /\ IF StartsReset(reset_pc)
       THEN /\ reset_pc' = "sleep"
            /\ resets_spawned' = resets_spawned + 1
       ELSE UNCHANGED <<reset_pc, resets_spawned>>
    /\ UNCHANGED <<proxy_view_count, proxy_total_count, proxy_lock, count,
                   tap_done, elapsed, status_pc>>
    /\ UNCHANGED <<CycleVars, HistoryVars, MatcherVars>>

\* --------------------------------------------------------------- /status
\* status() -> get_proxy_stats(): the dispatcher reaches `with proxy_lock`
StatusRequest ==
    /\ status_pc = "idle"
    /\ status_pc' = "lock_wait"
    /\ UNCHANGED <<proxy_view_count, proxy_total_count, proxy_lock,
                   active_threads, pc, count, tap_done, elapsed, reset_pc,
                   spawned, resets_spawned, starts>>
    /\ UNCHANGED <<CycleVars, HistoryVars, MatcherVars>>

StatusAcquire ==
    /\ status_pc = "lock_wait"
    /\ proxy_lock = Free
    /\ proxy_lock' = StatusTask
    /\ status_pc' = "reading"
    /\ UNCHANGED <<proxy_view_count, proxy_total_count, active_threads, pc,
                   count, tap_done, elapsed, reset_pc, spawned,
                   resets_spawned, starts>>
    /\ UNCHANGED <<CycleVars, HistoryVars, MatcherVars>>

\* the dicts after the comprehension read d[k] for every k in PROXIES
StatsRead(d) == TouchAll(d, PROXIES)

StatusRead ==
    /\ status_pc = "reading"
    /\ proxy_view_count' = StatsRead(proxy_view_count)
    /\ proxy_total_count' = StatsRead(proxy_total_count)
    /\ proxy_lock' = Free
    /\ status_pc' = "idle"
    /\ UNCHANGED <<active_threads, pc, count, tap_done, elapsed, reset_pc,
                   spawned, resets_spawned, starts>>
    /\ UNCHANGED <<CycleVars, HistoryVars, MatcherVars>>

\* ---------------------------------------------------- reset_views_hourly
\* time.sleep(wait_time) returns at the hour boundary
ResetWake ==
    /\ reset_pc = "sleep"
    /\ reset_pc' = "lock_wait"
    /\ UNCHANGED <<proxy_view_count, proxy_total_count, proxy_lock,
                   active_threads, pc, count, tap_done, elapsed, status_pc,
                   spawned, resets_spawned, starts>>
    /\ UNCHANGED <<CycleVars, HistoryVars, MatcherVars>>

ResetAcquire ==
    /\ reset_pc = "lock_wait"
    /\ proxy_lock = Free
    /\ proxy_lock' = ResetTask
    /\ reset_pc' = "reset"
    /\ UNCHANGED <<proxy_view_count, proxy_total_count, active_threads, pc,
                   count, tap_done, elapsed, status_pc, spawned,
                   resets_spawned, starts>>
    /\ UNCHANGED <<CycleVars, HistoryVars, MatcherVars>>

\* ResetCounts zeroing only the entries that reached the cap
ResetCountsMut(d) ==
    [k \in DOMAIN d |-> IF d[k] >= MAX_VIEWS_PER_HOUR THEN 0 ELSE d[k]]

\* `for k in proxy_view_count: proxy_view_count[k] = 0`
ResetCounts(d) == [k \in DOMAIN d |-> 0]

ResetViews ==
    /\ reset_pc = "reset"
    /\ proxy_view_count' = ResetCounts(proxy_view_count)
    /\ proxy_lock' = Free
    /\ reset_pc' = "sleep"
    /\ UNCHANGED <<proxy_total_count, active_threads, pc, count, tap_done,
                   elapsed, status_pc, spawned, resets_spawned, starts>>
    /\ UNCHANGED <<CycleVars, HistoryVars, MatcherVars>>

\* -------------------------------------------------------------- watch_ads
\* the variables a step of proxy p's thread never touches
WorkerFrame == <<active_threads, reset_pc, status_pc, spawned, resets_spawned,
                 starts, snapshot, failing, found, match_done,
                 last_category>>

\* create_driver(proxy_id): the session opens, or the thread returns
CreateDriver(p) ==
    /\ pc[p] = "create_driver"
    /\ \E opened \in BOOLEAN :
          pc' = [pc EXCEPT ![p] = IF opened THEN "lock_check" ELSE "exited"]
    /\ UNCHANGED <<proxy_view_count, proxy_total_count, proxy_lock, count,
                   tap_done, elapsed>>
    /\ UNCHANGED WorkerFrame
    /\ UNCHANGED <<CycleVars, category>>

\* `with proxy_lock:` at the top of the loop
CheckAcquire(p) ==
    /\ pc[p] = "lock_check"
    /\ proxy_lock = Free
    /\ proxy_lock' = p
    /\ pc' = [pc EXCEPT ![p] = "check"]
    /\ UNCHANGED <<proxy_view_count, proxy_total_count, count, tap_done,
                   elapsed>>
    /\ UNCHANGED WorkerFrame
    /\ UNCHANGED <<CycleVars, category>>

\* WindowExhausted with > for >=
WindowExhaustedMut(views) == views > MAX_VIEWS_PER_HOUR

\* `proxy_view_count[proxy_id] >= MAX_VIEWS_PER_HOUR`
WindowExhausted(views) == views >= MAX_VIEWS_PER_HOUR

\* LifetimeExhausted with > for >=
LifetimeExhaustedMut(total) == total > MAX_TOTAL_VIEWS_PER_PROXY

\* `proxy_total_count[proxy_id] >= MAX_TOTAL_VIEWS_PER_PROXY`
LifetimeExhausted(total) == total >= MAX_TOTAL_VIEWS_PER_PROXY

\* CapCheck with the window branch ending the loop instead of waiting
CapCheckMut(views, total) ==
    IF WindowExhausted(views) \/ LifetimeExhausted(total) THEN "quit"
    ELSE "start_delay"

\* the outcome of the cap check, in the order the code tests the counters
CapCheck(views, total) ==
    IF WindowExhausted(views) THEN "window_sleep"
    ELSE IF LifetimeExhausted(total) THEN "quit"
    ELSE "start_delay"

\* the body of the with block: count, the window test, the lifetime test.
\* The window branch sleeps inside the block, so the lock stays held; the
\* other two leave the block.
Check(p) ==
    /\ pc[p] = "check"
    /\ LET views == Touch(proxy_view_count, p)
           next == CapCheck(views[p], Val(proxy_total_count, p))
       IN  /\ proxy_view_count' = views
           /\ count' = [count EXCEPT ![p] = views[p] + 1]
           /\ proxy_total_count' =
                 IF next = "window_sleep" THEN proxy_total_count
                 ELSE Touch(proxy_total_count, p)
           /\ proxy_lock' = IF next = "window_sleep" THEN p ELSE Free
           /\ pc' = [pc EXCEPT ![p] = next]
    /\ UNCHANGED <<tap_done, elapsed>>
    /\ UNCHANGED WorkerFrame
    /\ UNCHANGED <<CycleVars, category>>

\* time.sleep(60) returns and `continue` leaves the with block, releasing
\* proxy_lock; the next statement of the loop is `with proxy_lock:` again,
\* and the thread either takes the lock back before any waiting thread has
\* run (retaken) or finds itself at the acquisition with the lock released
WindowSleepDone(p) ==
    /\ pc[p] = "window_sleep"
    /\ \E retaken \in BOOLEAN :
          /\ proxy_lock' = IF proxy_lock = p /\ ~retaken THEN Free
                                                        ELSE proxy_lock
          /\ pc' = [pc EXCEPT ![p] = IF proxy_lock = p /\ retaken
                                        THEN "check" ELSE "lock_check"]
    /\ UNCHANGED <<proxy_view_count, proxy_total_count, count, tap_done,
                   elapsed>>
    /\ UNCHANGED WorkerFrame
    /\ UNCHANGED <<CycleVars, category>>

\* the start delay, maybe_idle and the diversity actions, whose errors are
\* swallowed by their own handlers
StartDelay(p) ==
    /\ pc[p] = "start_delay"
    /\ pc' = [pc EXCEPT ![p] = "find_ad"]
    /\ UNCHANGED <<proxy_view_count, proxy_total_count, proxy_lock, count,
                   tap_done, elapsed>>
    /\ UNCHANGED WorkerFrame
    /\ UNCHANGED <<CycleVars, category>>

\* OnException with the error ending the thread
OnExceptionMut == "exited"

\* where an exception raised inside the loop's try block lands
OnException == "fail_retry"

\* `if count % 2 == 1`: the category whose button the cycle looks for
Category(c) == IF c % 2 = 1 THEN "Interstitial" ELSE "Rewarded"

\* the query for the ad button of this cycle's category: it raises, finds
\* nothing, or finds buttons
FindAdStep(p, found_category) ==
    /\ pc[p] = "find_ad"
    /\ \E outcome \in {"raises", "none", "found"} :
          /\ pc' = [pc EXCEPT ![p] =
                    CASE outcome = "raises" -> OnException
                      [] outcome = "none" -> "retry_ad"
                      [] outcome = "found" -> "tap_ad"]
          /\ category' = [category EXCEPT ![p] =
                    IF outcome = "found" THEN found_category ELSE @]
    /\ UNCHANGED <<close_found, cross_tapped>>
    /\ count' = [count EXCEPT ![p] = 0]
    /\ UNCHANGED <<proxy_view_count, proxy_total_count, proxy_lock,
                   tap_done, elapsed>>
    /\ UNCHANGED WorkerFrame

FindAd(p) == FindAdStep(p, category[p])

\* the query with the category of the button found recorded in the history
FindAdRecorded(p) == FindAdStep(p, Category(count[p]))

\* random_sleep(2, 4) and `continue`
RetryAd(p) ==
    /\ pc[p] = "retry_ad"
    /\ pc' = [pc EXCEPT ![p] = "lock_check"]
    /\ UNCHANGED <<proxy_view_count, proxy_total_count, proxy_lock, count,
                   tap_done, elapsed>>
    /\ UNCHANGED WorkerFrame
    /\ UNCHANGED <<CycleVars, category>>

\* human_tap: reading the element's geometry may raise; driver.tap and the
\* TouchAction fallback may each fail, and both failures are swallowed
HumanTapOutcomes == {"raises", "tap", "fallback", "both_fail"}

\* whether human_tap performed a tap on the element
Tapped(outcome) == outcome \in {"tap", "fallback"}

TapAd(p) ==
    /\ pc[p] = "tap_ad"
    /\ \E outcome \in HumanTapOutcomes :
          IF outcome = "raises"
          THEN /\ pc' = [pc EXCEPT ![p] = OnException]
               /\ UNCHANGED tap_done
          ELSE /\ pc' = [pc EXCEPT ![p] = "ad_wait"]
               /\ tap_done' = [tap_done EXCEPT ![p] = Tapped(outcome)]
    /\ UNCHANGED <<category, close_found, cross_tapped>>
    /\ UNCHANGED <<proxy_view_count, proxy_total_count, proxy_lock, count,
                   elapsed>>
    /\ UNCHANGED WorkerFrame

\* the ad duration sleep, maybe_idle, then `timeout = time.time() + 50`
AdWait(p) ==
    /\ pc[p] = "ad_wait"
    /\ elapsed' = [elapsed EXCEPT ![p] = 0]
    /\ pc' = [pc EXCEPT ![p] = "search"]
    /\ UNCHANGED <<proxy_view_count, proxy_total_count, proxy_lock, count,
                   tap_done>>
    /\ UNCHANGED WorkerFrame
    /\ UNCHANGED <<CycleVars, category>>

\* `while time.time() < timeout`
SearchOpen(t) == t < SEARCH_TIMEOUT

\* AfterSearch with the timeout treated as an error
AfterSearchMut == "fail_retry"

\* where the search loop goes when its condition is false
AfterSearch == "lock_commit"

\* where the loop goes after human_tap on cross_candidates[0] returned:
\* `close_found = True` and `break`, whatever the tap did
AfterCrossTap(outcome) == "lock_commit"

\* one pass of the search loop: the loop ends on the timeout; otherwise
\* find_all_possible_cross_buttons (which swallows query errors) returns
\* candidates, the first is tapped and the loop breaks, or it returns none
\* and the worker sleeps before the next pass
Search(p) ==
    /\ pc[p] = "search"
    /\ IF ~SearchOpen(elapsed[p])
       THEN /\ pc' = [pc EXCEPT ![p] = AfterSearch]
            /\ elapsed' = [elapsed EXCEPT ![p] = 0]
            /\ UNCHANGED <<tap_done, close_found, cross_tapped>>
       ELSE \/ \E outcome \in HumanTapOutcomes :
                 /\ pc' = [pc EXCEPT ![p] =
                       IF outcome = "raises" THEN OnException
                       ELSE AfterCrossTap(outcome)]
                 /\ tap_done' = [tap_done EXCEPT ![p] =
                       IF outcome = "raises" THEN FALSE ELSE @]
                 /\ close_found' = [close_found EXCEPT ![p] =
                       outcome # "raises"]
                 /\ cross_tapped' = [cross_tapped EXCEPT ![p] =
                       Tapped(outcome)]
                 /\ elapsed' = [elapsed EXCEPT ![p] = 0]
            \/ \E d \in PollSleeps :
                 /\ elapsed' = [elapsed EXCEPT ![p] = @ + d]
                 /\ UNCHANGED <<pc, tap_done, close_found, cross_tapped>>
    /\ UNCHANGED category
    /\ UNCHANGED <<proxy_view_count, proxy_total_count, proxy_lock, count>>
    /\ UNCHANGED WorkerFrame

\* `if not close_found` is evaluated (the last read of close_found), then
\* `with proxy_lock:` before the increments
CommitAcquire(p) ==
    /\ pc[p] = "lock_commit"
    /\ proxy_lock = Free
    /\ proxy_lock' = p
    /\ pc' = [pc EXCEPT ![p] = "commit"]
    /\ UNCHANGED <<proxy_view_count, proxy_total_count, count, tap_done,
                   elapsed>>
    /\ UNCHANGED WorkerFrame
    /\ close_found' = [close_found EXCEPT ![p] = FALSE]
    /\ cross_tapped' = [cross_tapped EXCEPT ![p] = FALSE]
    /\ UNCHANGED category

\* CommitTotal with the increment of the total left out
CommitTotalMut(d, p) == Touch(d, p)

\* `proxy_total_count[proxy_id] += 1`
CommitTotal(d, p) == Incr(d, p)

\* both counters += 1, then the block is left
CommitStep(p) ==
    /\ pc[p] = "commit"
    /\ proxy_view_count' = Incr(proxy_view_count, p)
    /\ proxy_total_count' = CommitTotal(proxy_total_count, p)
    /\ proxy_lock' = Free
    /\ pc' = [pc EXCEPT ![p] = "cooldown"]
    /\ tap_done' = [tap_done EXCEPT ![p] = FALSE]
    /\ UNCHANGED <<close_found, cross_tapped, category>>
    /\ UNCHANGED <<count, elapsed>>
    /\ UNCHANGED <<active_threads, reset_pc, status_pc, spawned,
                   resets_spawned, starts, snapshot, failing, found,
                   match_done>>

Commit(p) ==
    /\ CommitStep(p)
    /\ UNCHANGED last_category

\* the commit with the cycle's category recorded in the history variable
CommitRecorded(p) ==
    /\ CommitStep(p)
    /\ last_category' = [last_category EXCEPT ![p] = category[p]]

\* the between-ads sleep and maybe_idle; the loop starts over
Cooldown(p) ==
    /\ pc[p] = "cooldown"
    /\ pc' = [pc EXCEPT ![p] = "lock_check"]
    /\ UNCHANGED <<proxy_view_count, proxy_total_count, proxy_lock, count,
                   tap_done, elapsed>>
    /\ UNCHANGED WorkerFrame
    /\ UNCHANGED <<CycleVars, category>>

\* the except clause: log, the fail-retry sleep, `continue`
FailRetry(p) ==
    /\ pc[p] = "fail_retry"
    /\ pc' = [pc EXCEPT ![p] = "lock_check"]
    /\ UNCHANGED <<proxy_view_count, proxy_total_count, proxy_lock, count,
                   tap_done, elapsed>>
    /\ UNCHANGED WorkerFrame
    /\ UNCHANGED <<CycleVars, category>>

\* after `break`: driver.quit(), whose error is swallowed; the thread ends
Quit(p) ==
    /\ pc[p] = "quit"
    /\ pc' = [pc EXCEPT ![p] = "halted"]
    /\ UNCHANGED <<proxy_view_count, proxy_total_count, proxy_lock, count,
                   tap_done, elapsed>>
    /\ UNCHANGED WorkerFrame
    /\ UNCHANGED <<CycleVars, category>>

Worker(p) ==
    \/ CreateDriver(p)
    \/ CheckAcquire(p)
    \/ Check(p)
    \/ WindowSleepDone(p)
    \/ StartDelay(p)
    \/ FindAd(p)
    \/ RetryAd(p)
    \/ TapAd(p)
    \/ AdWait(p)
    \/ Search(p)
    \/ CommitAcquire(p)
    \/ Commit(p)
    \/ Cooldown(p)
    \/ FailRetry(p)
    \/ Quit(p)

Next ==
    \/ Start
    \/ StatusRequest
    \/ StatusAcquire
    \/ StatusRead
    \/ ResetWake
    \/ ResetAcquire
    \/ ResetViews
    \/ \E p \in PROXIES : Worker(p)

Spec == Init /\ [][Next]_vars

\* the same program with the history variables recorded
WorkerRecorded(p) ==
    \/ CreateDriver(p)
    \/ CheckAcquire(p)
    \/ Check(p)
    \/ WindowSleepDone(p)
    \/ StartDelay(p)
    \/ FindAdRecorded(p)
    \/ RetryAd(p)
    \/ TapAd(p)
    \/ AdWait(p)
    \/ Search(p)
    \/ CommitAcquire(p)
    \/ CommitRecorded(p)
    \/ Cooldown(p)
    \/ FailRetry(p)
    \/ Quit(p)

NextRecorded ==
    \/ Start
    \/ StatusRequest
    \/ StatusAcquire
    \/ StatusRead
    \/ ResetWake
    \/ ResetAcquire
    \/ ResetViews
    \/ \E p \in PROXIES : WorkerRecorded(p)

SpecRecorded == Init /\ [][NextRecorded]_vars

\* the steps of the reset thread and of the dispatcher inside a /status
ResetThread == ResetWake \/ ResetAcquire \/ ResetViews
StatusHandler == StatusAcquire \/ StatusRead

\* every thread eventually takes its next step, and a thread waiting for
\* proxy_lock gets it when the lock is found free again and again.
\* threading.Lock promises a waiting thread less than that, so every
\* behaviour that is fair in this sense is a behaviour of the program
Fairness ==
    /\ \A p \in PROXIES : SF_vars(Worker(p))
    /\ SF_vars(ResetThread)
    /\ SF_vars(StatusHandler)

FairSpec == Spec /\ Fairness

\* --------------------------------------- find_all_possible_cross_buttons
\* the size threshold of the small-clickable fallback
SMALL_CONTROL == 120

\* the number of queries of one call that raise
MaxFailing == 2

\* CROSS_BUTTON_HEURISTICS, in the order of the list
CROSS_BUTTON_HEURISTICS ==
    <<"desc_contains", "text_contains", "id_contains", "class_imagebutton",
      "class_imageview", "clickable_x", "desc_exact_x">>

\* the name under which the small-clickable query is listed in `failing`
Fallback == "small_clickable"

Queries == {CROSS_BUTTON_HEURISTICS[i] : i \in DOMAIN CROSS_BUTTON_HEURISTICS}
              \cup {Fallback}

\* the words of the pattern (?i)(close|cross|skip|dismiss|exit|x)
CrossWords == {"close", "cross", "skip", "dismiss", "exit", "x"}

\* the case folding of (?i), on the attribute values of ScreenElements
LowerCase(str) ==
    CASE str = "Close" -> "close"
      [] str = "X" -> "x"
      [] str = "Skip" -> "skip"
      [] OTHER -> str

\* the elements a screen may show, in the order of the element tree
ScreenElements ==
    << [id |-> 1, desc |-> "", text |-> "", rid |-> "",
        cls |-> "android.widget.ImageView", clickable |-> FALSE,
        width |-> 300, height |-> 300],
       [id |-> 2, desc |-> "", text |-> "Install", rid |-> "",
        cls |-> "android.widget.Button", clickable |-> TRUE,
        width |-> 200, height |-> 200],
       [id |-> 3, desc |-> "", text |-> "X", rid |-> "",
        cls |-> "android.widget.TextView", clickable |-> TRUE,
        width |-> 30, height |-> 30],
       [id |-> 4, desc |-> "Close", text |-> "", rid |-> "",
        cls |-> "android.widget.ImageButton", clickable |-> TRUE,
        width |-> 40, height |-> 40],
       [id |-> 5, desc |-> "", text |-> "", rid |-> "",
        cls |-> "android.view.View", clickable |-> TRUE,
        width |-> 120, height |-> 120],
       [id |-> 6, desc |-> "", text |-> "", rid |-> "",
        cls |-> "android.view.View", clickable |-> TRUE,
        width |-> 120, height |-> 121],
       [id |-> 7, desc |-> "X", text |-> "", rid |-> "exit",
        cls |-> "android.widget.ImageView", clickable |-> FALSE,
        width |-> 500, height |-> 60] >>

ElementSet == {ScreenElements[i] : i \in DOMAIN ScreenElements}

\* the UiSelector of each heuristic, as a predicate on an element
Matches(name, el) ==
    CASE name = "desc_contains" -> LowerCase(el.desc) \in CrossWords
      [] name = "text_contains" -> LowerCase(el.text) \in CrossWords
      [] name = "id_contains" -> LowerCase(el.rid) \in CrossWords
      [] name = "class_imagebutton" -> el.cls = "android.widget.ImageButton"
      [] name = "class_imageview" -> el.cls = "android.widget.ImageView"
      [] name = "clickable_x" -> el.text = "X" /\ el.clickable
      [] name = "desc_exact_x" -> el.desc = "X"
      [] name = Fallback -> el.clickable

\* driver.find_elements_by_android_uiautomator(sel) on a screen: the
\* matching elements in tree order
FindElements(name, screen) ==
    SelectSeq(ScreenElements, LAMBDA el : el \in screen /\ Matches(name, el))

\* `elid not in tried`, always true
IsNewMut(elid, tried) == TRUE

\* `elid not in tried`
IsNew(elid, tried) == elid \notin tried

\* found.append(el) turned into an insert at the front
AddFoundMut(seq, el) == <<el>> \o seq

\* found.append(el)
AddFound(seq, el) == Append(seq, el)

\* the small-control test with `or` for `and`
SmallControlMut(el) == el.width <= SMALL_CONTROL \/ el.height <= SMALL_CONTROL

\* `sz['width'] <= 120 and sz['height'] <= 120`
SmallControl(el) == el.width <= SMALL_CONTROL /\ el.height <= SMALL_CONTROL

\* the two locals of the call
NoneFound == [found |-> <<>>, tried |-> {}]

\* the inner loop: each element whose id was not seen is appended; the
\* fallback loop also tests the size first
RECURSIVE AddElements(_, _, _, _)
AddElements(acc, elements, i, sized) ==
    IF i > Len(elements) THEN acc
    ELSE LET el == elements[i]
             keep == (~sized \/ SmallControl(el)) /\ IsNew(el.id, acc.tried)
         IN  AddElements(
                 IF keep
                 THEN [found |-> AddFound(acc.found, el),
                       tried |-> acc.tried \cup {el.id}]
                 ELSE acc,
                 elements, i + 1, sized)

\* the except clause of a query with everything found so far dropped
AfterQueryErrorMut(acc) == NoneFound

\* the except clause of a query: logged, the locals stay as they are
AfterQueryError(acc) == acc

\* the loop over CROSS_BUTTON_HEURISTICS from the i-th on; results[name] is
\* what the query of name returns when it does not raise
RECURSIVE RunHeuristics(_, _, _, _)
RunHeuristics(acc, results, raising, i) ==
    IF i > Len(CROSS_BUTTON_HEURISTICS) THEN acc
    ELSE LET name == CROSS_BUTTON_HEURISTICS[i]
         IN  RunHeuristics(
                 IF name \in raising THEN AfterQueryError(acc)
                 ELSE AddElements(acc, results[name], 1, FALSE),
                 results, raising, i + 1)

\* the fallback block after the loop
RunFallback(acc, results, raising) ==
    IF Fallback \in raising THEN AfterQueryError(acc)
    ELSE AddElements(acc, results[Fallback], 1, TRUE)

\* the list the call returns, given what each query returns or that it raises
CollectCrossButtons(results, raising) ==
    RunFallback(RunHeuristics(NoneFound, results, raising, 1),
                results, raising).found

\* what the queries of a call return on a screen
QueryResults(screen) == [name \in Queries |-> FindElements(name, screen)]

\* the call on one screen with some of its queries raising
InitMatcher ==
    /\ ProgramInit
    /\ snapshot \in SUBSET ElementSet
    /\ failing \in {fs \in SUBSET Queries : Cardinality(fs) <= MaxFailing}
    /\ found = <<>>
    /\ match_done = FALSE

find_all_possible_cross_buttons ==
    /\ ~match_done
    /\ found' = CollectCrossButtons(QueryResults(snapshot), failing)
    /\ match_done' = TRUE
    /\ UNCHANGED <<proxy_view_count, proxy_total_count, proxy_lock,
                   active_threads, pc, count, tap_done, elapsed, reset_pc,
                   status_pc, spawned, resets_spawned, starts, snapshot,
                   failing>>
    /\ UNCHANGED <<CycleVars, HistoryVars>>

NextMatcher == find_all_possible_cross_buttons

SpecMatcher == InitMatcher /\ [][NextMatcher]_vars

\* ================================================================ claims
Views(p) == Val(proxy_view_count, p)
Total(p) == Val(proxy_total_count, p)
ViewsNext(p) == Val(proxy_view_count', p)
TotalNext(p) == Val(proxy_total_count', p)

\* proxy p's thread leaves position at in this step
Leaves(p, at) == pc[p] = at /\ pc'[p] # at

\* C1: for every proxy, in every reachable state, proxy_view_count is at
\* most MAX_VIEWS_PER_HOUR, although the cap check and the increment are
\* taken in two separate lock scopes.
C1_WindowCountWithinCap ==
    \A p \in PROXIES : Views(p) <= MAX_VIEWS_PER_HOUR

\* C1 witness: a commit has brought a proxy's window count to the cap while
\* the reset thread and the other worker are running.
C1_Witness ==
    \E p \in PROXIES :
        /\ pc[p] = "cooldown"
        /\ Views(p) = MAX_VIEWS_PER_HOUR
        /\ reset_pc # "none"
        /\ \E q \in PROXIES \ {p} : pc[q] \notin {"none", "exited"}

\* C2: a cap check made while proxy_total_count is at or above
\* MAX_TOTAL_VIEWS_PER_PROXY always takes the halt branch, never the
\* window-wait branch, whatever proxy_view_count is.
C2_LifetimeTakesPrecedence ==
    [][\A p \in PROXIES :
          (Leaves(p, "check") /\ Total(p) >= MAX_TOTAL_VIEWS_PER_PROXY)
              => pc'[p] = "quit"]_vars

\* the positions at which a worker is inside time.sleep
SleepPcs == {"window_sleep", "start_delay", "retry_ad", "ad_wait", "search",
             "cooldown", "fail_retry"}

\* C3: no task is sleeping or waiting while it holds proxy_lock: not a
\* worker in any of its sleeps, not the reset thread sleeping until the
\* hour, not the status query waiting for the lock.
C3_NoSleepHoldingLock ==
    /\ \A p \in PROXIES : pc[p] \in SleepPcs => proxy_lock # p
    /\ reset_pc \in {"sleep", "lock_wait"} => proxy_lock # ResetTask
    /\ status_pc = "lock_wait" => proxy_lock # StatusTask

\* C4: each reset by the reset thread sets proxy_view_count to 0 for every
\* key present, adds and removes no key, and leaves proxy_total_count
\* unchanged.
C4_ResetZeroesWindowOnly ==
    [][(reset_pc = "reset" /\ reset_pc' = "sleep") =>
          /\ DOMAIN proxy_view_count' = DOMAIN proxy_view_count
          /\ \A k \in DOMAIN proxy_view_count : proxy_view_count'[k] = 0
          /\ proxy_total_count' = proxy_total_count]_vars

\* C4 witness: a reset has zeroed the window count of a proxy with views
\* (only a reset makes the window count smaller than the total), while the
\* other worker is in the middle of a cycle.
C4_Witness ==
    \E p \in PROXIES :
        /\ p \in DOMAIN proxy_view_count
        /\ Views(p) = 0
        /\ Total(p) > 0
        /\ reset_pc = "sleep"
        /\ \E q \in PROXIES \ {p} : pc[q] \in {"search", "lock_commit"}

\* C5: with the total below its cap, a cap check at window count cap - 1 is
\* allowed (the worker starts the cycle), the commit at cap - 1 makes the
\* window count equal to the cap, and a cap check at the cap sends the
\* worker to the window wait: not to the halt, not into a cycle.
C5_LastViewThenWindowWait ==
    [][\A p \in PROXIES :
          /\ (/\ Leaves(p, "check")
              /\ Views(p) = MAX_VIEWS_PER_HOUR - 1
              /\ Total(p) < MAX_TOTAL_VIEWS_PER_PROXY) => pc'[p] = "start_delay"
          /\ (/\ Leaves(p, "commit")
              /\ Views(p) = MAX_VIEWS_PER_HOUR - 1)
                 => ViewsNext(p) = MAX_VIEWS_PER_HOUR
          /\ (/\ Leaves(p, "check")
              /\ Views(p) = MAX_VIEWS_PER_HOUR
              /\ Total(p) < MAX_TOTAL_VIEWS_PER_PROXY) => pc'[p] = "window_sleep"
      ]_vars

\* C5 witness: a worker is in the window wait with its window count at the
\* cap and its total below the lifetime cap.
C5_Witness ==
    \E p \in PROXIES :
        /\ pc[p] = "window_sleep"
        /\ Views(p) = MAX_VIEWS_PER_HOUR
        /\ Total(p) < MAX_TOTAL_VIEWS_PER_PROXY

\* C6: a proxy's counters are incremented only in a cycle whose tap on the
\* ad button was performed: when driver.tap and the fallback both failed,
\* or an error was raised before the commit, both counters stay as they
\* are.
C6_CommitOnlyAfterTap ==
    [][\A p \in PROXIES :
          (ViewsNext(p) > Views(p) \/ TotalNext(p) > Total(p))
              => tap_done[p]]_vars

\* C7: after any sequence of /start requests at most one worker thread was
\* started per proxy and at most one reset thread.
C7_StartIdempotent ==
    /\ \A p \in PROXIES : spawned[p] <= 1
    /\ resets_spawned <= 1

\* C7 witness: a second /start was handled while the workers were running.
C7_Witness ==
    /\ starts >= 2
    /\ \A p \in PROXIES : spawned[p] = 1
    /\ resets_spawned = 1
    /\ \E p \in PROXIES : pc[p] \notin {"none", "create_driver", "exited"}

\* C8: a status query leaves both counter dicts as they were: the same
\* keys with the same values.
C8_StatusReadOnly ==
    [][(status_pc = "reading" /\ status_pc' = "idle") =>
          /\ proxy_view_count' = proxy_view_count
          /\ proxy_total_count' = proxy_total_count]_vars

\* the positions at which the worker calls the transport inside the try
TransportPcs == {"find_ad", "tap_ad", "search"}

\* the positions those calls lead to when nothing is raised
NoErrorPcs == {"retry_ad", "tap_ad", "ad_wait", "search", "lock_commit"}

\* C9: an error raised by a transport call in the loop takes the worker to
\* the fail-retry sleep with proxy_lock not held by it and nothing else
\* changed (lock, counters, the other workers, the reset thread); from the
\* sleep the worker goes back to the top of its loop; and a worker leaves
\* the loop only through the lifetime halt of the cap check.
C9_ErrorCaughtAtLoop ==
    [][\A p \in PROXIES :
          /\ (/\ pc[p] \in TransportPcs
              /\ pc'[p] # pc[p]
              /\ pc'[p] \notin NoErrorPcs) =>
                /\ pc'[p] = "fail_retry"
                /\ proxy_lock' = proxy_lock
                /\ proxy_lock' # p
                /\ proxy_view_count' = proxy_view_count
                /\ proxy_total_count' = proxy_total_count
                /\ \A q \in PROXIES \ {p} : pc'[q] = pc[q]
                /\ reset_pc' = reset_pc
          /\ pc[p] = "fail_retry" => proxy_lock # p
          /\ Leaves(p, "fail_retry") => pc'[p] = "lock_check"
          /\ (pc'[p] = "exited" /\ pc[p] # "exited")
                => pc[p] = "create_driver"
          /\ (pc'[p] = "quit" /\ pc[p] # "quit") => pc[p] = "check"
          /\ (pc'[p] = "halted" /\ pc[p] # "halted") => pc[p] = "quit"
      ]_vars

\* C9 witness: a worker is in the fail-retry sleep after an error in a
\* later cycle, while the other worker is in its search loop and the
\* reset thread is running.
C9_Witness ==
    \E p \in PROXIES :
        /\ pc[p] = "fail_retry"
        /\ Total(p) > 0
        /\ reset_pc # "none"
        /\ \E q \in PROXIES \ {p} : pc[q] = "search"

\* C10: a search pass made at or after the timeout ends the loop and takes
\* the worker to the commit, the same place a found candidate takes it; a
\* pass that finds nothing before the timeout advances the time, which
\* never passes the timeout by more than one poll sleep; and the commit is
\* followed by the cooldown.
C10_SearchTimeoutProceeds ==
    [][\A p \in PROXIES :
          /\ (pc[p] = "search" /\ ~(elapsed[p] < SEARCH_TIMEOUT)
              /\ <<pc[p], elapsed[p]>> # <<pc'[p], elapsed'[p]>>)
                 => pc'[p] = "lock_commit"
          /\ (pc[p] = "search" /\ pc'[p] = "search"
              /\ elapsed'[p] # elapsed[p])
                 => /\ elapsed'[p] > elapsed[p]
                    /\ elapsed'[p] <= SEARCH_TIMEOUT + 1
          /\ Leaves(p, "lock_commit") => pc'[p] = "commit"
          /\ Leaves(p, "commit") =>
                /\ pc'[p] = "cooldown"
                /\ ViewsNext(p) = Views(p) + 1
                /\ TotalNext(p) = Total(p) + 1
      ]_vars

\* C10 witness: the timeout has elapsed in a search loop in which no
\* candidate appeared.
C10_Witness ==
    \E p \in PROXIES : pc[p] = "search" /\ elapsed[p] >= SEARCH_TIMEOUT

\* C11: for every proxy, two consecutive committed cycles use different
\* ad button categories, also when the reset thread runs between them.
C11_CategoryAlternates ==
    [][\A p \in PROXIES :
          (Leaves(p, "commit") /\ last_category[p] # "none")
              => last_category'[p] # last_category[p]]_vars

\* ------------------------------------------- claims about the matcher
\* the named heuristics whose query returns, and which match el
WorkingMatches(el) ==
    {i \in DOMAIN CROSS_BUTTON_HEURISTICS :
        /\ CROSS_BUTTON_HEURISTICS[i] \notin failing
        /\ Matches(CROSS_BUTTON_HEURISTICS[i], el)}

\* the position of the first query that returns el: a heuristic's index,
\* or one past the list for the fallback
Rank(el) ==
    IF WorkingMatches(el) = {} THEN Len(CROSS_BUTTON_HEURISTICS) + 1
    ELSE CHOOSE i \in WorkingMatches(el) :
            \A j \in WorkingMatches(el) : i <= j

InFound(el) == \E i \in DOMAIN found : found[i] = el

\* C12: the call returns the empty list on an empty screen, and no element
\* id occurs twice in the list it returns.
C12_EmptyAndDeduplicated ==
    match_done =>
        /\ snapshot = {} => found = <<>>
        /\ \A i, j \in DOMAIN found : i # j => found[i].id # found[j].id

\* C12 witness: an element matched by two heuristics and by the fallback,
\* all of whose queries returned, is in the returned list.
C12_Witness ==
    /\ match_done
    /\ \E el \in snapshot :
          /\ Cardinality(WorkingMatches(el)) >= 2
          /\ Fallback \notin failing
          /\ el.clickable
          /\ el.width <= SMALL_CONTROL /\ el.height <= SMALL_CONTROL
          /\ InFound(el)

\* C13: the returned list is in heuristic priority order (the rank of the
\* first query that returned each element never decreases along the list,
\* fallback matches last), and candidate 0 has the best rank of all the
\* elements of the screen that a heuristic returned.
C13_PriorityOrder ==
    match_done =>
        /\ \A i, j \in DOMAIN found :
              i < j => Rank(found[i]) <= Rank(found[j])
        /\ \A el \in snapshot :
              WorkingMatches(el) # {} =>
                  /\ found # <<>>
                  /\ Rank(found[1]) <= Rank(el)

\* C13 witness: the list holds elements of three different ranks, one of
\* them a fallback match, and candidate 0 is not the first element of the
\* tree.
C13_Witness ==
    /\ match_done
    /\ Len(found) >= 3
    /\ Cardinality({Rank(found[i]) : i \in DOMAIN found}) >= 3
    /\ Rank(found[Len(found)]) = Len(CROSS_BUTTON_HEURISTICS) + 1
    /\ \E el \in snapshot : el.id < found[1].id

\* what the queries return with the raising ones returning nothing
ResultsWithoutFailing ==
    [name \in Queries |->
        IF name \in failing THEN <<>> ELSE FindElements(name, snapshot)]

C15_FallbackSizeLimit ==
    match_done =>
        \A el \in snapshot :
            /\ (WorkingMatches(el) = {} /\ InFound(el)) =>
                  /\ el.clickable
                  /\ el.width <= SMALL_CONTROL
                  /\ el.height <= SMALL_CONTROL
            /\ WorkingMatches(el) # {} => InFound(el)

\* C15 witness: the fallback ran on a screen with a clickable element above
\* the threshold that no heuristic matches, which is not in the list, while
\* an element above the threshold that a heuristic matches is in it, and so
\* is a fallback match within the threshold.
C15_Witness ==
    /\ match_done
    /\ Fallback \notin failing
    /\ \E el \in snapshot :
          /\ WorkingMatches(el) = {}
          /\ el.clickable
          /\ el.width > SMALL_CONTROL
          /\ ~InFound(el)
    /\ \E el \in snapshot :
          /\ WorkingMatches(el) # {}
          /\ el.width > SMALL_CONTROL /\ el.height > SMALL_CONTROL
          /\ InFound(el)
    /\ \E el \in snapshot : WorkingMatches(el) = {} /\ InFound(el)

\* ------------------------------------- claims about the workers, continued
\* C16: the worker leaves the search loop with the dismissal recorded as
\* done only when a tap on the candidate was performed: when driver.tap
\* and the fallback both failed it stays in the loop for another candidate.
C16_FailedDismissalTriesNext ==
    [][\A p \in PROXIES :
          (Leaves(p, "search") /\ close_found'[p]) => cross_tapped'[p]]_vars

\* C17: for every proxy, proxy_total_count never decreases and never
\* exceeds MAX_TOTAL_VIEWS_PER_PROXY.
C17_TotalMonotonicWithinCap ==
    [][\A p \in PROXIES :
          /\ TotalNext(p) >= Total(p)
          /\ Total(p) <= MAX_TOTAL_VIEWS_PER_PROXY
          /\ TotalNext(p) <= MAX_TOTAL_VIEWS_PER_PROXY]_vars

\* C17 witness: a proxy has halted with its total at the cap, after a
\* reset and a second /start.
C17_Witness ==
    \E p \in PROXIES :
        /\ pc[p] = "halted"
        /\ Total(p) = MAX_TOTAL_VIEWS_PER_PROXY
        /\ Views(p) < Total(p)
        /\ starts >= 2

\* the positions of a worker thread that is running its loop
LoopPcs == {"lock_check", "check", "window_sleep", "start_delay", "find_ad",
            "retry_ad", "tap_ad", "ad_wait", "search", "lock_commit",
            "commit", "cooldown", "fail_retry"}

C20_WindowAtMostTotal ==
    /\ [](\A p \in PROXIES : Views(p) <= Total(p))
    /\ [][\A p \in PROXIES :
            (ViewsNext(p) # Views(p) \/ TotalNext(p) # Total(p)) =>
                \/ /\ ViewsNext(p) = Views(p) + 1
                   /\ TotalNext(p) = Total(p) + 1
                \/ /\ ViewsNext(p) = 0
                   /\ TotalNext(p) = Total(p)]_vars

\* C20 witness: a proxy has committed a view after a reset: its window
\* count is positive and smaller than its total.
C20_Witness ==
    \E p \in PROXIES : Views(p) > 0 /\ Views(p) < Total(p)

====
